---- MODULE Spec2Model ----
(***************************************************************************)
(* NutriScan client: the request/session wrapper (api), the subscription   *)
(* gate of the scanner screen with its payment sub-flow, and the service   *)
(* worker's network-first cache.                                           *)
(*                                                                         *)
(* Spec     : the React application (src/App.jsx)                          *)
(* SpecSW   : the service worker (public/sw.js)                            *)
(* SpecDash : DashboardScreen's load() and handleDelete()                  *)
(* SpecReq  : api.req, setToken and clear as their callers see them        *)
(* SpecPay  : the scanner and its payment flow, with a confirmation that   *)
(*            the widget may deliver twice                                 *)
(* SpecBusy : the screens that show a spinner, each from its mount         *)
(***************************************************************************)
EXTENDS Integers, Sequences, FiniteSets, TLC

VARIABLES
    \* ---- api singleton and browser storage (App.jsx 70-73)
    token,        \* api.token
    stored,       \* localStorage["ns_token"]
    reloading,    \* window.location.reload() was called, the page is not yet unloaded
    \* ---- App shell (App.jsx 1148-1149)
    authed, tab,
    \* ---- AuthScreen (App.jsx 110)
    authLoading,
    \* ---- ScannerScreen (App.jsx 427-434)
    image, file, result, loading, scError, showPaywall, subChecked,
    reader,       \* a FileReader started by pick() has not fired onload yet
    \* ---- PaywallScreen (App.jsx 303-304)
    paying, payError,
    \* ---- ProfileScreen (App.jsx 1010)
    profile,
    \* ---- environment: requests in flight, open checkout widgets
    net, widgets,
    redeliver,    \* a payment confirmation the widget hands to options.handler twice
    \* ---- history (not program state)
    revoked,      \* a 401 cleared the credential and no login has stored one since
    subReq,       \* /meals/analyze reported subscription_required, no verify succeeded since
    subReqHere,   \* the same, for the mounted scanner instance only
    advisory,     \* what the mounted scanner instance's check on mount reported
    paidHere,     \* onPaid() ran for the mounted scanner instance
    last,         \* the event of the last step, "none" for most
    \* ---- service worker (sw.js)
    swState,      \* lifecycle of this worker
    caches,       \* CacheStorage: the entries of every named cache
    order,        \* CacheStorage: the names of the caches, in creation order
    swReqs,       \* page requests in flight
    puts,         \* cache writes the fetch listener started and did not await
    page,         \* the last response the page received
    fetched,      \* history: keys a successful network response was returned for
    written,      \* history: per key, the body of the last completed cache write
    lastOk,       \* history: per key, the body of the last successful network response
    \* ---- DashboardScreen (App.jsx)
    today,        \* state today: what GET /dashboard/today last gave
    history,      \* state history
    stats,        \* state stats
    dLoading,     \* state loading of DashboardScreen
    deleting,     \* state deleting: the meal whose delete awaits confirmation
    deleteLoading,\* state deleteLoading
    dAlert,       \* the message of the last alert()
    joins,        \* the Promise.all of each load() that has requests in flight
    dnet,         \* the dashboard's requests in flight
    server,       \* the meals the server holds
    deletedOk,    \* history: meals whose DELETE was answered with success
    \* ---- api.req as its callers see it
    calls         \* per caller: what it sent, what came back, what req gave it

appVars == <<token, stored, reloading, authed, tab, authLoading, image, file, result,
             loading, scError, showPaywall, subChecked, reader, paying, payError,
             profile, net, widgets, redeliver, revoked, subReq, subReqHere, advisory,
             paidHere, last>>
swVars == <<swState, caches, order, swReqs, puts, page, fetched, written, lastOk>>
dashVars == <<today, history, stats, dLoading, deleting, deleteLoading, dAlert,
              joins, dnet, server, deletedOk>>
vars == <<appVars, swVars, dashVars, calls>>

None == "none"

\* ------------------------------------------------------------------ bounds
MaxInFlight == 2     \* requests the user may have in flight when starting another
MaxWidgets == 1      \* checkout widgets open at once
MaxReaders == 1      \* FileReaders pick() has started that have not loaded yet

\* --------------------------------------------------------------- constants
Unauthorized == 401
Tokens == {"t1", "t2"}
SubscriptionRequired == "subscription_required"
VerifyFailedMsg == "Payment verification failed. Contact support."
PaymentFailedMsg == "Payment failed"
GenericMsg == "Failed"
FetchFailedMsg == "Failed to fetch"
NoRazorpayMsg == "window.Razorpay is not a constructor"

LoginPath == "/login"
RegisterPath == "/register"
StatusPath == "/subscription/status"
CreateOrderPath == "/subscription/create-order"
VerifyPath == "/subscription/verify"
AnalyzePath == "/meals/analyze"
ProfilePath == "/profile"
DashboardPaths == {"/dashboard/today", "/dashboard/history?days=7", "/dashboard/stats"}

\* ------------------------------------------------------- server responses
\* What fetch() settles with.  status 0 stands for a transport failure
\* (fetch rejects); detail is the body's "detail" field, None when the body
\* has none or is not JSON; tok / active are the fields of a success body
\* that the callers read.
Details == {None, SubscriptionRequired, "denied"}
Responses ==
    [status : {200}, detail : {None}, tok : Tokens, active : BOOLEAN]
      \cup [status : {Unauthorized, 403}, detail : Details, tok : {None}, active : {FALSE}]
      \cup [status : {0}, detail : {None}, tok : {None}, active : {FALSE}]

\* detail || "Failed": no detail in the body, or an empty one.
Falsy == {None, ""}

\* Response.ok of the fetch API.
RespOk(resp) == resp.status >= 200 /\ resp.status <= 299

\* The credential: api.token in memory and ns_token in localStorage.
Sess == [token |-> token, stored |-> stored]

\* api.setToken / api.clear
SetTokenMemoryOnly(t) == [token |-> t, stored |-> stored]
setToken(t) == [token |-> t, stored |-> t]
ClearStorageOnly == [token |-> token, stored |-> None]
clear == [token |-> None, stored |-> None]

\* api.req after the await of fetch: the credential it leaves, whether it
\* asked for a reload, and what the caller gets: ok with the decoded body,
\* or the message of the thrown Error.
ReqThrowsBeforeClear(resp, sess) ==
    [ sess   |-> sess,
      reload |-> FALSE,
      ok     |-> resp.status # 0 /\ RespOk(resp),
      msg    |-> IF resp.status = 0 THEN FetchFailedMsg
                 ELSE IF resp.detail \notin Falsy THEN resp.detail ELSE GenericMsg ]
ReqClearsOnFailure(resp, sess) ==
    [ sess   |-> IF resp.status # 0 /\ RespOk(resp) THEN sess ELSE clear,
      reload |-> resp.status = Unauthorized,
      ok     |-> resp.status # 0 /\ RespOk(resp),
      msg    |-> IF resp.status = 0 THEN FetchFailedMsg
                 ELSE IF resp.detail \notin Falsy THEN resp.detail ELSE GenericMsg ]
ReqGenericMessage(resp, sess) ==
    [ sess   |-> IF resp.status = Unauthorized THEN clear ELSE sess,
      reload |-> resp.status = Unauthorized,
      ok     |-> resp.status # 0 /\ RespOk(resp),
      msg    |-> IF resp.status = 0 THEN FetchFailedMsg ELSE GenericMsg ]
req(resp, sess) ==
    [ sess   |-> IF resp.status = Unauthorized THEN clear ELSE sess,
      reload |-> resp.status = Unauthorized,
      ok     |-> resp.status # 0 /\ RespOk(resp),
      msg    |-> IF resp.status = 0 THEN FetchFailedMsg
                 ELSE IF resp.detail \notin Falsy THEN resp.detail ELSE GenericMsg ]

\* The Authorization header api.req attaches when it sends (line 76).
AuthHeader(tok) == IF tok # None THEN tok ELSE None

\* A request in flight.  by: the component that awaits it; live: that screen
\* instance is still mounted; pw: that PaywallScreen instance is still
\* mounted; post401: history, the value of revoked when it was sent; dup:
\* 1 and 2 for the two verify calls of a confirmation delivered twice.
Request(path, by, tok, p401) ==
    [path |-> path, by |-> by, auth |-> AuthHeader(tok), live |-> TRUE,
     pw |-> (by = "paywall"), post401 |-> p401, dup |-> 0]

\* The credential part of every response step.
ApiTail(o) ==
    /\ token' = o.sess.token
    /\ stored' = o.sess.stored
    /\ reloading' = (reloading \/ o.reload)
    /\ revoked' = (revoked \/ o.reload)

scVars == <<image, file, result, loading, scError, showPaywall, subChecked, reader>>
pwVars == <<paying, payError>>

\* ------------------------------------------------------------- components
ScannerMounted == authed /\ tab = 0
PaywallMounted == ScannerMounted /\ subChecked /\ showPaywall

\* The subscription gate of the scanner screen, read off its render (475-477).
Gate ==
    IF ~ScannerMounted THEN "Unknown"
    ELSE IF ~subChecked THEN "Checking"
    ELSE IF showPaywall THEN "Blocked"
    ELSE "Allowed"

\* ScannerScreen renders the scanner itself: past both early returns (475, 477).
ScannerShownIgnoringPaywall == ScannerMounted /\ subChecked
ScannerShown == Gate = "Allowed"

\* useState initial values of ScannerScreen and PaywallScreen.
ScannerKeepsPaywall ==
    /\ image' = FALSE /\ file' = FALSE /\ result' = FALSE /\ loading' = FALSE
    /\ scError' = None /\ showPaywall' = showPaywall /\ subChecked' = FALSE
    /\ reader' = 0 /\ subReqHere' = FALSE /\ advisory' = "pending" /\ paidHere' = FALSE
ScannerFresh ==
    /\ image' = FALSE /\ file' = FALSE /\ result' = FALSE /\ loading' = FALSE
    /\ scError' = None /\ showPaywall' = FALSE /\ subChecked' = FALSE
    /\ reader' = 0 /\ subReqHere' = FALSE /\ advisory' = "pending" /\ paidHere' = FALSE
PaywallFresh == paying' = FALSE /\ payError' = None

\* The requests the effects of the screen of tab t send when it mounts.
MountReqsNoCheck(t, tok, p401) ==
    CASE t = 0 -> {}
      [] t = 1 -> {Request(p, "dashboard", tok, p401) : p \in DashboardPaths}
      [] t = 2 -> {Request(ProfilePath, "profile", tok, p401),
                   Request(StatusPath, "profile", tok, p401)}
MountReqs(t, tok, p401) ==
    CASE t = 0 -> {Request(StatusPath, "scanner", tok, p401)}
      [] t = 1 -> {Request(p, "dashboard", tok, p401) : p \in DashboardPaths}
      [] t = 2 -> {Request(ProfilePath, "profile", tok, p401),
                   Request(StatusPath, "profile", tok, p401)}

\* A screen unmounts: what it awaits still runs to completion, its state
\* setters no longer have an effect.
Orphaned(S) == {[x EXCEPT !.live = FALSE, !.pw = FALSE] : x \in S}
OrphanedPw(S) == {[x EXCEPT !.pw = FALSE] : x \in S}

\* The widget calls options.handler a second time with the same response:
\* due while that call is still to come, live / pw the instances the
\* callback's closure belongs to, oks (history) how many of the two verify
\* calls have returned successfully.
NoRedeliver == [due |-> FALSE, live |-> FALSE, pw |-> FALSE, oks |-> 0]

\* ------------------------------------------------------------------ Init
AppInit ==
    /\ stored \in {None, "t1"}
    /\ token = stored
    /\ reloading = FALSE
    /\ authed = (token # None)
    /\ tab = 0
    /\ authLoading = FALSE
    /\ image = FALSE /\ file = FALSE /\ result = FALSE /\ loading = FALSE
    /\ scError = None /\ showPaywall = FALSE /\ subChecked = FALSE /\ reader = 0
    /\ paying = FALSE /\ payError = None
    /\ profile = FALSE
    /\ net = IF token # None THEN MountReqs(0, token, FALSE) ELSE {}
    /\ widgets = {}
    /\ revoked = FALSE /\ subReq = FALSE /\ subReqHere = FALSE
    /\ advisory = "pending" /\ paidHere = FALSE /\ last = "none"
    /\ redeliver = NoRedeliver

\* --------------------------------------------------------------- App shell
\* Bottom navigation: setTab(i).
SetTab(i) ==
    /\ last' = "none"
    /\ authed /\ i # tab
    /\ Cardinality(net) < MaxInFlight
    /\ tab' = i
    /\ ScannerFresh /\ PaywallFresh
    /\ profile' = FALSE
    /\ net' = Orphaned(net) \cup MountReqs(i, token, revoked)
    /\ widgets' = Orphaned(widgets)
    /\ redeliver' = [redeliver EXCEPT !.live = FALSE, !.pw = FALSE]
    /\ UNCHANGED <<token, stored, reloading, authed, authLoading, revoked, subReq>>
    /\ UNCHANGED <<swVars, dashVars, calls>>

\* ProfileScreen's sign-out button: api.clear(); setAuthed(false).
Logout ==
    /\ last' = "none"
    /\ authed /\ tab = 2 /\ profile
    /\ token' = clear.token /\ stored' = clear.stored
    /\ authed' = FALSE
    /\ profile' = FALSE
    /\ net' = Orphaned(net)
    /\ widgets' = Orphaned(widgets)
    /\ redeliver' = [redeliver EXCEPT !.live = FALSE, !.pw = FALSE]
    /\ UNCHANGED <<reloading, tab, authLoading, revoked, subReq, subReqHere, advisory, paidHere>>
    /\ UNCHANGED <<scVars, pwVars, swVars, dashVars, calls>>

\* The page reload asked for by api.req takes place: the module is evaluated
\* again (api.token from storage), App mounts again.
Reload ==
    /\ last' = "none"
    /\ reloading
    /\ reloading' = FALSE
    /\ token' = stored
    /\ authed' = (stored # None)
    /\ tab' = 0
    /\ authLoading' = FALSE
    /\ ScannerFresh /\ PaywallFresh
    /\ profile' = FALSE
    /\ net' = IF stored # None THEN MountReqs(0, stored, revoked) ELSE {}
    /\ widgets' = {}
    /\ redeliver' = NoRedeliver
    /\ UNCHANGED <<stored, revoked, subReq>>
    /\ UNCHANGED <<swVars, dashVars, calls>>

\* -------------------------------------------------------------- AuthScreen
\* submit(): mode 0 posts /login, mode 1 posts /register.
Submit(mode) ==
    /\ last' = "none"
    /\ ~authed /\ ~authLoading
    /\ Cardinality(net) < MaxInFlight
    /\ authLoading' = TRUE
    /\ net' = net \cup {Request(IF mode = 0 THEN LoginPath ELSE RegisterPath,
                                "auth", token, revoked)}
    /\ UNCHANGED <<token, stored, reloading, authed, tab, profile, widgets,
                   revoked, subReq, subReqHere, advisory, paidHere>>
    /\ UNCHANGED <<scVars, pwVars, swVars, dashVars, calls, redeliver>>

\* submit() after its await.
SubmitDone(r, resp) ==
    /\ last' = "none"
    /\ r \in net /\ r.by = "auth"
    /\ LET o == req(resp, Sess) IN
       IF o.ok
       THEN /\ token' = setToken(resp.tok).token
            /\ stored' = setToken(resp.tok).stored
            /\ authed' = TRUE
            /\ revoked' = FALSE
            /\ net' = (net \ {r}) \cup MountReqs(tab, resp.tok, FALSE)
            /\ UNCHANGED reloading
       ELSE /\ ApiTail(o)
            /\ net' = net \ {r}
            /\ UNCHANGED authed
    /\ authLoading' = FALSE
    /\ UNCHANGED <<tab, profile, widgets, subReq, subReqHere, advisory, paidHere>>
    /\ UNCHANGED <<scVars, pwVars, swVars, dashVars, calls, redeliver>>

\* ----------------------------------------------------------- ScannerScreen
\* PaywallScreen mounts (first render with showPaywall set): fresh state, and
\* its effect sends GET /subscription/status.
PaywallMountReqs(tok, p401) == {Request(StatusPath, "paywall", tok, p401)}

\* The effect on mount: api.get("/subscription/status").then(...).catch(...)
\* AdvisoryBlocks: the .then callback runs and finds !s.active.
AdvisoryNeverBlocks(o, resp) == FALSE
AdvisoryFailsClosed(o, resp) == ~o.ok \/ ~resp.active
AdvisoryBlocks(o, resp) == o.ok /\ ~resp.active

StatusChecked(r, resp) ==
    /\ r \in net /\ r.by = "scanner" /\ r.path = StatusPath
    /\ LET o == req(resp, Sess) IN
       /\ ApiTail(o)
       /\ IF r.live
          THEN /\ showPaywall' = (showPaywall \/ AdvisoryBlocks(o, resp))
               /\ subChecked' = TRUE
               /\ advisory' = (IF ~o.ok THEN "failed"
                               ELSE IF resp.active THEN "active" ELSE "inactive")
               /\ net' = (net \ {r}) \cup
                         (IF showPaywall' /\ ~PaywallMounted
                          THEN PaywallMountReqs(o.sess.token, revoked') ELSE {})
          ELSE /\ net' = net \ {r}
               /\ UNCHANGED <<showPaywall, subChecked, advisory>>
    /\ last' = "none"
    /\ UNCHANGED <<authed, tab, authLoading, profile, widgets, subReq, subReqHere, paidHere>>
    /\ UNCHANGED <<image, file, result, loading, scError, reader, pwVars, swVars, dashVars, calls, redeliver>>

\* pick(f): the file input's onChange.
Pick(isImage) ==
    /\ last' = "none"
    /\ ScannerShown /\ ~image
    /\ reader < MaxReaders
    /\ IF isImage
       THEN /\ scError' = None /\ result' = FALSE /\ file' = TRUE
            /\ reader' = reader + 1
       ELSE UNCHANGED <<scError, result, file, reader>>
    /\ UNCHANGED <<token, stored, reloading, authed, tab, authLoading, profile, net,
                   widgets, revoked, subReq, subReqHere, advisory, paidHere>>
    /\ UNCHANGED <<image, loading, showPaywall, subChecked, pwVars, swVars, dashVars, calls, redeliver>>

\* FileReader.onload of pick(): setImage.
ReaderLoad ==
    /\ last' = "none"
    /\ reader > 0
    /\ reader' = reader - 1
    /\ image' = TRUE
    /\ UNCHANGED <<token, stored, reloading, authed, tab, authLoading, profile, net,
                   widgets, revoked, subReq, subReqHere, advisory, paidHere>>
    /\ UNCHANGED <<file, result, loading, scError, showPaywall, subChecked, pwVars, swVars, dashVars, calls, redeliver>>

\* reset(): the preview's Remove button and "Scan Another Meal".
Reset ==
    /\ last' = "none"
    /\ ScannerShown /\ image
    /\ image' = FALSE /\ file' = FALSE /\ result' = FALSE /\ scError' = None
    /\ UNCHANGED <<token, stored, reloading, authed, tab, authLoading, profile, net,
                   widgets, revoked, subReq, subReqHere, advisory, paidHere>>
    /\ UNCHANGED <<loading, showPaywall, subChecked, reader, pwVars, swVars, dashVars, calls, redeliver>>

\* scan() up to its await: the "Analyze Meal" button of the preview.
Scan ==
    /\ last' = "none"
    /\ ScannerShown /\ image /\ ~result /\ ~loading
    /\ Cardinality(net) < MaxInFlight
    /\ IF ~file
       THEN UNCHANGED <<loading, scError, net>>
       ELSE /\ loading' = TRUE /\ scError' = None
            /\ net' = net \cup {Request(AnalyzePath, "scanner", token, revoked)}
    /\ UNCHANGED <<token, stored, reloading, authed, tab, authLoading, profile,
                   widgets, revoked, subReq, subReqHere, advisory, paidHere>>
    /\ UNCHANGED <<image, file, result, showPaywall, subChecked, reader, pwVars, swVars, dashVars, calls, redeliver>>

\* scan()'s catch: e.message === "subscription_required".
IsAnyError(msg) == FALSE
IsEveryError(msg) == TRUE
IsSubscriptionRequired(msg) == msg = SubscriptionRequired

\* scan()'s catch: the requests it sends (none: it sets state and returns).
ScanCatchRetries(tok, p401) == {Request(AnalyzePath, "scanner", tok, p401)}
ScanCatchReqs(tok, p401) == {}

\* scan() after its await.
ScanDone(r, resp) ==
    /\ r \in net /\ r.by = "scanner" /\ r.path = AnalyzePath
    /\ LET o == req(resp, Sess)
           required == ~o.ok /\ IsSubscriptionRequired(o.msg)
       IN
       /\ ApiTail(o)
       /\ IF r.live
          THEN /\ result' = (IF o.ok THEN TRUE ELSE result)
               /\ showPaywall' = (showPaywall \/ required)
               /\ scError' = (IF ~o.ok /\ ~required THEN o.msg ELSE scError)
               /\ loading' = FALSE
               /\ subReq' = (subReq \/ required)
               /\ subReqHere' = (subReqHere \/ required)
               /\ last' = (IF required THEN "sub_required" ELSE "none")
               /\ net' = (net \ {r}) \cup
                         (IF showPaywall' /\ subChecked /\ ~PaywallMounted
                          THEN PaywallMountReqs(o.sess.token, revoked') ELSE {}) \cup
                         (IF ~o.ok THEN ScanCatchReqs(o.sess.token, revoked') ELSE {})
          ELSE /\ net' = net \ {r}
               /\ last' = "none"
               /\ UNCHANGED <<result, showPaywall, scError, loading, subReq, subReqHere>>
    /\ UNCHANGED <<authed, tab, authLoading, profile, widgets, advisory, paidHere>>
    /\ UNCHANGED <<image, file, subChecked, reader, pwVars, swVars, dashVars, calls, redeliver>>

\* ----------------------------------------------------------- PaywallScreen
\* handlePayment() up to its await: the pay button (disabled while paying).
HandlePayment ==
    /\ last' = "none"
    /\ Gate = "Blocked" /\ ~paying
    /\ Cardinality(net) < MaxInFlight
    /\ Cardinality(widgets) + Cardinality({x \in net : x.path = CreateOrderPath}) < MaxWidgets
    /\ paying' = TRUE /\ payError' = None
    /\ net' = net \cup {Request(CreateOrderPath, "paywall", token, revoked)}
    /\ UNCHANGED <<token, stored, reloading, authed, tab, authLoading, profile,
                   widgets, revoked, subReq, subReqHere, advisory, paidHere>>
    /\ UNCHANGED <<scVars, swVars, dashVars, calls, redeliver>>

\* handlePayment() after its await: new window.Razorpay(options), rzp.open(),
\* or the catch.  hasRzp: the checkout script has loaded.
OrderDone(r, resp, hasRzp) ==
    /\ last' = "none"
    /\ r \in net /\ r.path = CreateOrderPath
    /\ LET o == req(resp, Sess)
           opened == o.ok /\ hasRzp
       IN
       /\ ApiTail(o)
       /\ net' = net \ {r}
       /\ widgets' = (IF opened THEN widgets \cup {[live |-> r.live, pw |-> r.pw]}
                      ELSE widgets)
       /\ IF ~opened /\ r.pw
          THEN /\ payError' = (IF o.ok THEN NoRazorpayMsg ELSE o.msg)
               /\ paying' = FALSE
          ELSE UNCHANGED pwVars
    /\ UNCHANGED <<authed, tab, authLoading, profile, subReq, subReqHere, advisory, paidHere>>
    /\ UNCHANGED <<scVars, swVars, dashVars, calls, redeliver>>

\* options.handler up to its await: the widget reports a completed payment.
\* again: the widget will call the handler once more with the same response.
PaymentHandler(w, again) ==
    /\ last' = "none"
    /\ w \in widgets
    /\ again => (~redeliver.due /\ \A x \in net : x.dup = 0)
    /\ widgets' = widgets \ {w}
    /\ net' = net \cup {[Request(VerifyPath, "paywall", token, revoked)
                          EXCEPT !.live = w.live, !.pw = w.pw,
                                 !.dup = IF again THEN 1 ELSE 0]}
    /\ redeliver' = IF again THEN [due |-> TRUE, live |-> w.live, pw |-> w.pw, oks |-> 0]
                    ELSE redeliver
    /\ UNCHANGED <<token, stored, reloading, authed, tab, authLoading, profile,
                   revoked, subReq, subReqHere, advisory, paidHere>>
    /\ UNCHANGED <<scVars, pwVars, swVars, dashVars, calls>>

\* options.handler up to its await, called the second time.
PaymentHandlerAgain ==
    /\ last' = "none"
    /\ redeliver.due
    /\ net' = net \cup {[Request(VerifyPath, "paywall", token, revoked)
                          EXCEPT !.live = redeliver.live, !.pw = redeliver.pw, !.dup = 2]}
    /\ redeliver' = [NoRedeliver EXCEPT !.oks = redeliver.oks]
    /\ UNCHANGED <<token, stored, reloading, authed, tab, authLoading, profile, widgets,
                   revoked, subReq, subReqHere, advisory, paidHere>>
    /\ UNCHANGED <<scVars, pwVars, swVars, dashVars, calls>>

\* onPaid of the scanner (477): the value it gives showPaywall.
OnPaidToggles(sp) == ~sp
OnPaid(sp) == FALSE

\* options.handler: onPaid() runs once the awaited verify call has returned.
OnPaidWithoutAwait(o) == TRUE
OnPaidRuns(o) == o.ok

\* options.handler: the message its catch sets.
VerifyCatchGeneric(o) == o.msg
VerifyCatchMsg(o) == VerifyFailedMsg

\* options.handler: what its catch leaves in paying (it does not call
\* setPaying).
VerifyCatchResetsPaying(p) == FALSE
VerifyCatchPaying(p) == p

\* options.modal.ondismiss: the user closes the widget.
DismissAsFailure(w) ==
    /\ w \in widgets
    /\ widgets' = widgets \ {w}
    /\ paying' = (IF w.pw THEN FALSE ELSE paying)
    /\ payError' = (IF w.pw THEN PaymentFailedMsg ELSE payError)
    /\ last' = (IF w.pw THEN "dismissed" ELSE "none")
    /\ UNCHANGED <<token, stored, reloading, authed, tab, authLoading, profile, net,
                   revoked, subReq, subReqHere, advisory, paidHere>>
    /\ UNCHANGED <<scVars, swVars, dashVars, calls, redeliver>>
Dismiss(w) ==
    /\ w \in widgets
    /\ widgets' = widgets \ {w}
    /\ paying' = (IF w.pw THEN FALSE ELSE paying)
    /\ last' = (IF w.pw THEN "dismissed" ELSE "none")
    /\ UNCHANGED <<token, stored, reloading, authed, tab, authLoading, profile, net,
                   revoked, subReq, subReqHere, advisory, paidHere>>
    /\ UNCHANGED <<payError, scVars, swVars, dashVars, calls, redeliver>>

\* options.handler after its await: onPaid() (ScannerScreen's
\* setShowPaywall(false)), or the catch.
VerifyDone(r, resp) ==
    /\ r \in net /\ r.path = VerifyPath
    /\ LET o == req(resp, Sess)
           paid == OnPaidRuns(o) /\ r.live
       IN
       /\ ApiTail(o)
       /\ showPaywall' = (IF paid THEN OnPaid(showPaywall) ELSE showPaywall)
       /\ subReq' = (IF o.ok THEN FALSE ELSE subReq)
       /\ subReqHere' = (IF o.ok THEN FALSE ELSE subReqHere)
       /\ paidHere' = (paidHere \/ paid)
       /\ last' = (IF paid THEN (IF r.dup > 0 /\ redeliver.oks = 1 THEN "paid_again" ELSE "paid")
                   ELSE IF ~o.ok /\ r.pw THEN "verify_failed" ELSE "none")
       /\ redeliver' = [redeliver EXCEPT
                           !.oks = IF r.dup > 0 /\ o.ok THEN @ + 1 ELSE @,
                           !.pw = IF paid /\ PaywallMounted THEN FALSE ELSE @]
       /\ IF paid /\ PaywallMounted
          THEN /\ PaywallFresh
               /\ net' = OrphanedPw(net \ {r})
               /\ widgets' = OrphanedPw(widgets)
          ELSE /\ net' = net \ {r}
               /\ payError' = (IF ~o.ok /\ r.pw THEN VerifyCatchMsg(o) ELSE payError)
               /\ paying' = (IF ~o.ok /\ r.pw THEN VerifyCatchPaying(paying) ELSE paying)
               /\ UNCHANGED widgets
    /\ UNCHANGED <<authed, tab, authLoading, profile, advisory>>
    /\ UNCHANGED <<image, file, result, loading, scError, subChecked, reader, swVars, dashVars, calls>>

\* rzp.on("payment.failed"): the widget stays open for another attempt.
PaymentFailed(w, description) ==
    /\ last' = "none"
    /\ w \in widgets
    /\ IF w.pw
       THEN /\ payError' = (IF description # None THEN description ELSE PaymentFailedMsg)
            /\ paying' = FALSE
       ELSE UNCHANGED pwVars
    /\ UNCHANGED <<token, stored, reloading, authed, tab, authLoading, profile, net,
                   widgets, revoked, subReq, subReqHere, advisory, paidHere>>
    /\ UNCHANGED <<scVars, swVars, dashVars, calls, redeliver>>

\* ------------------------------------------- reads whose caller keeps no gate
\* PaywallScreen's and ProfileScreen's status reads, ProfileScreen's profile
\* read, DashboardScreen's reads.
ReadDone(r, resp) ==
    /\ last' = "none"
    /\ r \in net
    /\ \/ r.by \in {"dashboard", "profile"}
       \/ r.by = "paywall" /\ r.path = StatusPath
    /\ LET o == req(resp, Sess) IN
       /\ ApiTail(o)
       /\ profile' = (profile \/ (r.by = "profile" /\ r.path = ProfilePath /\ r.live /\ o.ok))
    /\ net' = net \ {r}
    /\ UNCHANGED <<authed, tab, authLoading, widgets, subReq, subReqHere, advisory, paidHere>>
    /\ UNCHANGED <<scVars, pwVars, swVars, dashVars, calls, redeliver>>

Descriptions == {None, "declined"}

Next ==
    \/ \E i \in 0..2 : SetTab(i)
    \/ Logout
    \/ Reload
    \/ \E mode \in 0..1 : Submit(mode)
    \/ \E r \in net, resp \in Responses : SubmitDone(r, resp)
    \/ \E r \in net, resp \in Responses : StatusChecked(r, resp)
    \/ \E isImage \in BOOLEAN : Pick(isImage)
    \/ ReaderLoad
    \/ Reset
    \/ Scan
    \/ \E r \in net, resp \in Responses : ScanDone(r, resp)
    \/ HandlePayment
    \/ \E r \in net, resp \in Responses, hasRzp \in BOOLEAN : OrderDone(r, resp, hasRzp)
    \/ \E w \in widgets : PaymentHandler(w, FALSE)
    \/ \E r \in net, resp \in Responses : VerifyDone(r, resp)
    \/ \E w \in widgets, d \in Descriptions : PaymentFailed(w, d)
    \/ \E w \in widgets : Dismiss(w)
    \/ \E r \in net, resp \in Responses : ReadDone(r, resp)

\* The scanner screen and its payment flow, with a widget that may hand a
\* confirmation to options.handler twice.
\* What the server answers in this part: no 401 (the session is looked at
\* under Spec), one token.
PayResponses ==
    {r \in Responses : r.status # Unauthorized /\ r.tok \in {None, "t1"}}

NextPay ==
    \/ \E i \in 0..1 : SetTab(i)
    \/ \E r \in net, resp \in PayResponses : StatusChecked(r, resp)
    \/ \E isImage \in BOOLEAN : Pick(isImage)
    \/ ReaderLoad
    \/ Reset
    \/ Scan
    \/ \E r \in net, resp \in PayResponses : ScanDone(r, resp)
    \/ HandlePayment
    \/ \E r \in net, resp \in PayResponses, hasRzp \in BOOLEAN : OrderDone(r, resp, hasRzp)
    \/ \E w \in widgets, again \in BOOLEAN : PaymentHandler(w, again)
    \/ PaymentHandlerAgain
    \/ \E r \in net, resp \in PayResponses : VerifyDone(r, resp)
    \/ \E w \in widgets, d \in Descriptions : PaymentFailed(w, d)
    \/ \E w \in widgets : Dismiss(w)
    \/ \E r \in net, resp \in PayResponses : ReadDone(r, resp)

\* ======================================================================
\* DashboardScreen (App.jsx)
\* ======================================================================
MaxLoads == 2        \* load() calls that have a request in flight, at once
MaxDeletes == 2      \* DELETE requests in flight, at once

Meals == {"m1"}
TodayPath == "/dashboard/today"
HistoryPath == "/dashboard/history?days=7"
StatsPath == "/dashboard/stats"

\* What a dashboard read gives: the meals it reflects.  NoData is the null
\* the three states start with.
NoData == [loaded |-> FALSE, meals |-> {}]
Snapshot(meals) == [loaded |-> TRUE, meals |-> meals]
NoJoin == [live |-> FALSE, settled |-> TRUE, got |-> [p \in DashboardPaths |-> NoData]]
NoMeal == "none"

\* useState(null) x3, loading true, deleting null, deleteLoading false.
DashFresh ==
    /\ today' = NoData /\ history' = NoData /\ stats' = NoData
    /\ dLoading' = TRUE /\ deleting' = NoMeal /\ deleteLoading' = FALSE

\* The dashboard is not looked at under Spec and SpecSW.
DashIdle ==
    /\ today = NoData /\ history = NoData /\ stats = NoData
    /\ dLoading = TRUE /\ deleting = NoMeal /\ deleteLoading = FALSE
    /\ dAlert = None /\ joins = [i \in 1..MaxLoads |-> NoJoin] /\ dnet = {}
    /\ server = Meals /\ deletedOk = {}

\* ======================================================================
\* api.req as a function of the call and of the response
\* ======================================================================
MaxCalls == 2        \* callers of api.req looked at, each with one call at a time

\* opts.body: none (get, del, a post without body), a JSON string, FormData.
BodyKinds == {"none", "json", "form"}
JsonType == "application/json"

\* if (!(opts.body instanceof FormData)) h["Content-Type"] = "application/json"
JsonAlways(body) == JsonType
ContentType(body) == IF body # "form" THEN JsonType ELSE None

\* The headers fetch() is called with.
Headers(tok, body) == [auth |-> AuthHeader(tok), ctype |-> ContentType(body)]

\* What a call gives its caller: the decoded body, or a thrown Error, which
\* has a message and nothing else of the response.
NoBody == [token |-> None, active |-> FALSE]
NoOut == [kind |-> "pending", message |-> None, body |-> NoBody]
Outcome(resp, o) ==
    IF o.ok THEN [kind |-> "return", message |-> None,
                  body |-> [token |-> resp.tok, active |-> resp.active]]
    ELSE [kind |-> "throw", message |-> o.msg, body |-> NoBody]

NoResp == [status |-> 0, detail |-> None, tok |-> None, active |-> FALSE]
NoCall == [phase |-> "idle", body |-> "none", tok |-> None,
           headers |-> Headers(None, "form"), resp |-> NoResp, out |-> NoOut]

CallsIdle == calls = [i \in 1..MaxCalls |-> NoCall]

\* ======================================================================
\* The service worker (public/sw.js)
\* ======================================================================
MaxSwReqs == 2       \* page requests in flight plus cache writes pending, at once

CACHE_NAME == "nutriscan-v1"
OldCache == "nutriscan-v0"        \* a cache left by an earlier version
\* URLs as their path segments: "/" is <<>>.
STATIC_ASSETS == {<<>>, <<"index.html">>}
ApiUrl == <<"api", "meals">>        \* an API call, ".../api/meals"
Urls == STATIC_ASSETS \cup {<<"app.js">>, ApiUrl}
\* The URLs the page asks for: an installed asset, a file that is not
\* installed, an API call.
Requested == {<<"index.html">>, <<"app.js">>, ApiUrl}
Methods == {"GET", "POST"}
Bodies == {"b1", "b2"}

\* e.request.url.includes("/api/"): a segment "api" with a segment after it.
IncludesApiNever(url) == FALSE
IncludesApi(url) == \E i \in 1..(Len(url) - 1) : url[i] = "api"

\* caches.match(request): the first hit over the caches in creation order;
\* only GET requests match.  Holders are the positions of the caches that
\* hold an entry for url.
Holders(cs, ord, url) ==
    {i \in 1..Len(ord) : \E e \in cs : e.name = ord[i] /\ e.url = url}
FirstHolder(cs, ord, url) ==
    IF Holders(cs, ord, url) = {} THEN None
    ELSE ord[CHOOSE i \in Holders(cs, ord, url) : \A j \in Holders(cs, ord, url) : i <= j]
MatchNothing(cs, ord, url, method) == None
MatchAnyUrl(cs, ord, url, method) ==
    IF cs = {} THEN None ELSE (CHOOSE e \in cs : TRUE).body
MatchIgnoringMethod(cs, ord, url, method) ==
    IF Holders(cs, ord, url) = {} THEN None
    ELSE (CHOOSE e \in cs : e.name = FirstHolder(cs, ord, url) /\ e.url = url).body
Match(cs, ord, url, method) ==
    IF method # "GET" \/ Holders(cs, ord, url) = {} THEN None
    ELSE (CHOOSE e \in cs : e.name = FirstHolder(cs, ord, url) /\ e.url = url).body

\* caches.open(name) creates the cache when there is none of that name.
Opened(ord, name) ==
    IF \E i \in 1..Len(ord) : ord[i] = name THEN ord ELSE Append(ord, name)

\* cache.put(request, response) on the cache called name: the entry of the
\* key is replaced.
PutKeepsEntry(cs, name, url, body) ==
    IF \E e \in cs : e.name = name /\ e.url = url THEN cs
    ELSE cs \cup {[name |-> name, url |-> url, body |-> body]}
Put(cs, name, url, body) ==
    {e \in cs : ~(e.name = name /\ e.url = url)}
        \cup {[name |-> name, url |-> url, body |-> body]}

\* What the page gets for request q.  netFailed and prior are history: the
\* network fetch of q failed; a successful network response for q's key had
\* been returned before q was made.
\* from is the cache an answer of kind "cache" was read from.
NoPage == [url |-> <<>>, method |-> "GET", kind |-> "nothing", body |-> None,
           netFailed |-> FALSE, prior |-> FALSE, from |-> None]
Delivered(q, kind, body, failed) ==
    [url |-> q.url, method |-> q.method, kind |-> kind, body |-> body,
     netFailed |-> failed, prior |-> q.prior, from |-> None]

SWIdle ==
    /\ swState = "parsed" /\ caches = {} /\ order = <<>> /\ swReqs = {} /\ puts = {}
    /\ page = NoPage /\ fetched = {} /\ written = [u \in Urls |-> None]
    /\ lastOk = [u \in Urls |-> None]

Init == AppInit /\ SWIdle /\ DashIdle /\ CallsIdle

\* The application is not looked at under SpecSW.
AppIdle == AppInit /\ stored = None

\* A page request the previous version of the worker (the same listener
\* under the cache name OldCache) is still answering when this one arrives.
OldRequest ==
    [id |-> 0, url |-> <<"app.js">>, method |-> "GET", phase |-> "net",
     prior |-> FALSE, cache |-> OldCache]

InitSW ==
    /\ AppIdle /\ DashIdle /\ CallsIdle
    /\ swState = "parsed"
    /\ caches \in {{}, {[name |-> OldCache, url |-> <<"index.html">>, body |-> "b1"]}}
    /\ order = IF caches = {} THEN <<>> ELSE <<OldCache>>
    /\ swReqs \in {{}, {OldRequest}} /\ puts = {}
    /\ page = NoPage /\ fetched = {}
    /\ written = [u \in Urls |-> None]
    /\ lastOk = [u \in Urls |-> None]

\* install: caches.open(CACHE_NAME).then(cache => cache.addAll(STATIC_ASSETS)),
\* all or nothing; body is what the network returns for the assets.
Install(ok, body) ==
    /\ swState = "parsed"
    /\ IF ok
       THEN /\ swState' = "installed"
            /\ caches' = {e \in caches : ~(e.name = CACHE_NAME /\ e.url \in STATIC_ASSETS)}
                            \cup {[name |-> CACHE_NAME, url |-> u, body |-> body] : u \in STATIC_ASSETS}
            /\ written' = [u \in Urls |-> IF u \in STATIC_ASSETS THEN body ELSE written[u]]
       ELSE /\ swState' = "redundant"
            /\ UNCHANGED <<caches, written>>
    /\ order' = Opened(order, CACHE_NAME)
    /\ UNCHANGED <<swReqs, puts, page, fetched, lastOk, appVars, dashVars, calls>>

\* activate: every cache whose name is not CACHE_NAME is deleted.
Activate ==
    /\ swState = "installed"
    /\ swState' = "activated"
    /\ caches' = {e \in caches : e.name = CACHE_NAME}
    /\ order' = SelectSeq(order, LAMBDA k : k = CACHE_NAME)
    /\ UNCHANGED <<swReqs, puts, page, fetched, written, lastOk, appVars, dashVars, calls>>

\* fetch listener, synchronous part: API calls are left to the browser,
\* everything else is answered with respondWith(fetch(e.request)...).
FetchEvent(id, url, method) ==
    /\ swState = "activated"
    /\ Cardinality(swReqs) + Cardinality(puts) < MaxSwReqs
    /\ \A q \in swReqs : q.id # id
    /\ \A j \in 1..(id - 1) : \E q \in swReqs : q.id = j
    /\ swReqs' = swReqs \cup
          {[id |-> id, url |-> url, method |-> method,
            phase |-> IF IncludesApi(url) THEN "direct" ELSE "net",
            prior |-> (url \in fetched), cache |-> CACHE_NAME]}
    /\ UNCHANGED <<swState, caches, order, puts, page, fetched, written, lastOk, appVars, dashVars, calls>>

\* if (resp.ok): only a success status is stored.
StoresAnyStatus(ok) == TRUE
StoresResponse(ok) == ok

\* The network answers: .then((resp) => { if (resp.ok) {... cache.put ...}
\* return resp; }).  The put is started, not awaited.
NetResponse(q, ok, body) ==
    /\ q \in swReqs /\ q.phase \in {"net", "direct"}
    /\ swReqs' = swReqs \ {q}
    /\ page' = Delivered(q, IF ok THEN "network" ELSE "http-error", body, FALSE)
    /\ IF q.phase = "net" /\ StoresResponse(ok)
       THEN /\ puts' = puts \cup {[name |-> q.cache, url |-> q.url,
                                     method |-> q.method, body |-> body]}
            /\ fetched' = IF q.method = "GET" /\ q.cache = CACHE_NAME
                           THEN fetched \cup {q.url} ELSE fetched
            /\ lastOk' = IF q.method = "GET" /\ q.cache = CACHE_NAME
                          THEN [lastOk EXCEPT ![q.url] = body] ELSE lastOk
       ELSE UNCHANGED <<puts, fetched, lastOk>>
    /\ UNCHANGED <<swState, caches, order, written, appVars, dashVars, calls>>

\* The network fails: without respondWith the page sees the failure, with
\* it the .catch starts caches.match(e.request).
NetFail(q) ==
    /\ q \in swReqs /\ q.phase \in {"net", "direct"}
    /\ IF q.phase = "direct"
       THEN /\ swReqs' = swReqs \ {q}
            /\ page' = Delivered(q, "error", None, TRUE)
       ELSE /\ swReqs' = (swReqs \ {q}) \cup {[q EXCEPT !.phase = "match"]}
            /\ UNCHANGED page
    /\ UNCHANGED <<swState, caches, order, puts, fetched, written, lastOk, appVars, dashVars, calls>>

\* caches.match settles: its result answers the page; undefined is a
\* network error for the page.
CacheMatch(q) ==
    /\ q \in swReqs /\ q.phase = "match"
    /\ swReqs' = swReqs \ {q}
    /\ LET m == Match(caches, order, q.url, q.method) IN
       page' = IF m # None
               THEN [Delivered(q, "cache", m, TRUE)
                        EXCEPT !.from = FirstHolder(caches, order, q.url)]
               ELSE Delivered(q, "error", None, TRUE)
    /\ UNCHANGED <<swState, caches, order, puts, fetched, written, lastOk, appVars, dashVars, calls>>

\* caches.open(CACHE_NAME).then((cache) => cache.put(e.request, clone))
\* completes; cache.put rejects for a request that is not a GET.
PutDone(p) ==
    /\ p \in puts
    /\ puts' = puts \ {p}
    /\ order' = Opened(order, p.name)
    /\ IF p.method = "GET"
       THEN /\ caches' = Put(caches, p.name, p.url, p.body)
            /\ written' = IF p.name = CACHE_NAME
                           THEN [written EXCEPT ![p.url] = p.body] ELSE written
       ELSE UNCHANGED <<caches, written>>
    /\ UNCHANGED <<swState, swReqs, page, fetched, lastOk, appVars, dashVars, calls>>

NextSW ==
    \/ \E ok \in BOOLEAN, body \in Bodies : Install(ok, body)
    \/ Activate
    \/ \E id \in 1..MaxSwReqs, url \in Requested, method \in Methods : FetchEvent(id, url, method)
    \/ \E q \in swReqs, ok \in BOOLEAN, body \in Bodies : NetResponse(q, ok, body)
    \/ \E q \in swReqs : NetFail(q)
    \/ \E q \in swReqs : CacheMatch(q)
    \/ \E p \in puts : PutDone(p)

Spec == Init /\ [][Next]_vars
SpecSW == InitSW /\ [][NextSW]_vars

\* The user is signed in when the page loads.
InitPay == Init /\ stored = "t1"
SpecPay == InitPay /\ [][NextPay]_vars

\* ======================================================================
\* DashboardScreen: load, delete, and the screen's mounting
\* ======================================================================
DashMounted == authed /\ tab = 1

\* What the dashboard's requests settle with: the fields of a success body
\* that other screens read are fixed.
DashResponses ==
    {r \in Responses : r.tok \in {None, "t1"} /\ r.detail # SubscriptionRequired
                        /\ (r.status = 200 => r.active)}

credVars == <<token, stored, reloading, revoked>>
\* What no step of the dashboard touches.
dashFrame == <<authLoading, scVars, pwVars, profile, net, widgets, redeliver, subReq, subReqHere,
               advisory, paidHere, swVars, calls>>

Deletes == {r \in dnet : r.kind = "delete"}
\* The load() slots with no request in flight.
FreeLoads == {i \in 1..MaxLoads : \A r \in dnet : r.kind = "get" => r.n # i}
FreeDeletes == {i \in 1..MaxDeletes : \A r \in dnet : r.kind = "delete" => r.n # i}
Lowest(S) == CHOOSE i \in S : \A k \in S : i <= k

\* load(): Promise.all([api.get(today), api.get(history), api.get(stats)]).
LoadReqs(i, live) ==
    {[kind |-> "get", path |-> p, n |-> i, meal |-> NoMeal, live |-> live] : p \in DashboardPaths}
NewJoin(live) ==
    [live |-> live, settled |-> FALSE, got |-> [p \in DashboardPaths |-> NoData]]

\* Promise.all fulfils when every read has fulfilled.
JoinedAny(got) == \E p \in DashboardPaths : got[p].loaded
Joined(got) == \A p \in DashboardPaths : got[p].loaded

\* load(): .finally(() => setLoading(false)) runs however the join settles.
ThenOnly(fulfilled, rejected) == fulfilled
FinallyRuns(fulfilled, rejected) == fulfilled \/ rejected

DashInit ==
    /\ token = "t1" /\ stored = "t1" /\ reloading = FALSE /\ authed = TRUE /\ tab = 1
    /\ authLoading = FALSE
    /\ image = FALSE /\ file = FALSE /\ result = FALSE /\ loading = FALSE
    /\ scError = None /\ showPaywall = FALSE /\ subChecked = FALSE /\ reader = 0
    /\ paying = FALSE /\ payError = None
    /\ profile = FALSE /\ net = {} /\ widgets = {}
    /\ revoked = FALSE /\ subReq = FALSE /\ subReqHere = FALSE
    /\ advisory = "pending" /\ paidHere = FALSE /\ last = "none"
    /\ redeliver = NoRedeliver
    /\ SWIdle
    /\ today = NoData /\ history = NoData /\ stats = NoData
    /\ dLoading = TRUE /\ deleting = NoMeal /\ deleteLoading = FALSE /\ dAlert = None
    /\ joins = [i \in 1..MaxLoads |-> IF i = 1 THEN NewJoin(TRUE) ELSE NoJoin]
    /\ dnet = LoadReqs(1, TRUE)
    /\ server = Meals /\ deletedOk = {}
    /\ CallsIdle

\* One of the three reads of a load() settles.  The join fulfils with the
\* last success (.then sets the three states) or rejects with the first
\* failure; .finally sets loading false either way.
DashLoadDone(r, resp) ==
    /\ r \in dnet /\ r.kind = "get"
    /\ LET o == req(resp, Sess)
           j == joins[r.n]
           got == [j.got EXCEPT ![r.path] = Snapshot(server)]
           rest == dnet \ {r}
           over == \A x \in rest : x.kind = "get" => x.n # r.n
           fulfilled == ~j.settled /\ o.ok /\ Joined(got)
           rejected == ~j.settled /\ ~o.ok
       IN /\ ApiTail(o)
          /\ last' = IF o.ok THEN "none" ELSE "read_failed"
          /\ dnet' = rest
          /\ joins' = [joins EXCEPT ![r.n] =
                          IF over THEN NoJoin
                          ELSE IF fulfilled \/ rejected
                               THEN [j EXCEPT !.settled = TRUE]
                          ELSE IF j.settled THEN j
                          ELSE [j EXCEPT !.got = got]]
          /\ IF fulfilled /\ j.live
             THEN /\ today' = got[TodayPath]
                  /\ history' = got[HistoryPath]
                  /\ stats' = got[StatsPath]
             ELSE UNCHANGED <<today, history, stats>>
          /\ dLoading' = IF FinallyRuns(fulfilled, rejected) /\ j.live THEN FALSE ELSE dLoading
    /\ UNCHANGED <<deleting, deleteLoading, dAlert, server, deletedOk>>
    /\ UNCHANGED <<authed, tab, dashFrame>>

\* The trash button of a meal of today's list: setDeleting(m.id).
SetDeleting(m) ==
    /\ last' = "none"
    /\ DashMounted /\ ~dLoading /\ deleting = NoMeal
    /\ m \in today.meals
    /\ deleting' = m
    /\ UNCHANGED <<today, history, stats, dLoading, deleteLoading, dAlert, joins, dnet,
                   server, deletedOk>>
    /\ UNCHANGED <<authed, tab, credVars, dashFrame>>

\* The modal's cancel: setDeleting(null).
CancelDelete ==
    /\ last' = "none"
    /\ DashMounted /\ ~dLoading /\ deleting # NoMeal
    /\ deleting' = NoMeal
    /\ UNCHANGED <<today, history, stats, dLoading, deleteLoading, dAlert, joins, dnet,
                   server, deletedOk>>
    /\ UNCHANGED <<authed, tab, credVars, dashFrame>>

\* handleDelete() up to its await: the modal's button is not disabled
\* while a delete is in flight.
HandleDelete ==
    /\ last' = "none"
    /\ DashMounted /\ ~dLoading /\ deleting # NoMeal
    /\ FreeDeletes # {} /\ Cardinality(FreeLoads) > Cardinality(Deletes)
    /\ deleteLoading' = TRUE
    /\ dnet' = dnet \cup {[kind |-> "delete", path |-> "/meals/", n |-> Lowest(FreeDeletes),
                            meal |-> deleting, live |-> TRUE]}
    /\ UNCHANGED <<today, history, stats, dLoading, deleting, dAlert, joins, server, deletedOk>>
    /\ UNCHANGED <<authed, tab, credVars, dashFrame>>

\* handleDelete() after the await: on success setDeleting(null),
\* setLoading(true), load(); on failure alert(e.message); then
\* setDeleteLoading(false).  gone: a request that failed in transport had
\* reached the server or not.
DashDeleteDone(r, resp, gone) ==
    /\ r \in dnet /\ r.kind = "delete"
    /\ LET o == req(resp, Sess)
           i == Lowest(FreeLoads)
       IN /\ ApiTail(o)
          /\ last' = IF o.ok THEN "deleted" ELSE "none"
          /\ server' = IF o.ok \/ (resp.status = 0 /\ gone) THEN server \ {r.meal} ELSE server
          /\ deletedOk' = IF o.ok THEN deletedOk \cup {r.meal} ELSE deletedOk
          /\ IF o.ok
             THEN /\ joins' = [joins EXCEPT ![i] = NewJoin(r.live)]
                  /\ dnet' = (dnet \ {r}) \cup LoadReqs(i, r.live)
                  /\ deleting' = IF r.live THEN NoMeal ELSE deleting
                  /\ dLoading' = IF r.live THEN TRUE ELSE dLoading
                  /\ UNCHANGED dAlert
             ELSE /\ dnet' = dnet \ {r}
                  /\ dAlert' = o.msg
                  /\ UNCHANGED <<joins, deleting, dLoading>>
          /\ deleteLoading' = IF r.live THEN FALSE ELSE deleteLoading
    /\ UNCHANGED <<today, history, stats>>
    /\ UNCHANGED <<authed, tab, dashFrame>>

\* Bottom navigation: the dashboard unmounts (its state is dropped, what it
\* awaits runs on) or mounts (fresh state, useEffect calls load()).
DashSetTab(i) ==
    /\ last' = "none"
    /\ authed /\ i # tab
    /\ i = 1 => Cardinality(FreeLoads) > Cardinality(Deletes)
    /\ tab' = i
    /\ DashFresh
    /\ LET gone == {[r EXCEPT !.live = FALSE] : r \in dnet}
           left == [k \in 1..MaxLoads |-> [joins[k] EXCEPT !.live = FALSE]]
       IN IF i = 1
          THEN /\ joins' = [left EXCEPT ![Lowest(FreeLoads)] = NewJoin(TRUE)]
               /\ dnet' = gone \cup LoadReqs(Lowest(FreeLoads), TRUE)
          ELSE /\ joins' = left
               /\ dnet' = gone
    /\ UNCHANGED <<dAlert, server, deletedOk>>
    /\ UNCHANGED <<authed, credVars, dashFrame>>

\* window.location.reload() takes effect: the page starts again from the
\* stored credential, with nothing in flight.
DashReload ==
    /\ last' = "none"
    /\ reloading
    /\ reloading' = FALSE
    /\ token' = stored
    /\ authed' = (stored # None)
    /\ tab' = 0
    /\ DashFresh
    /\ dAlert' = None
    /\ joins' = [i \in 1..MaxLoads |-> NoJoin]
    /\ dnet' = {}
    /\ UNCHANGED <<stored, revoked, server, deletedOk, dashFrame>>

NextDash ==
    \/ \E r \in dnet, resp \in DashResponses : DashLoadDone(r, resp)
    \/ \E m \in Meals : SetDeleting(m)
    \/ CancelDelete
    \/ HandleDelete
    \/ \E r \in dnet, resp \in DashResponses, gone \in BOOLEAN : DashDeleteDone(r, resp, gone)
    \/ \E i \in 0..1 : DashSetTab(i)
    \/ DashReload

SpecDash == DashInit /\ [][NextDash]_vars

\* ======================================================================
\* The screens that show a spinner, each from its mount and without a
\* change of tab: the scanner (tab 0) or the dashboard (tab 1).
\* ======================================================================
InitBusy == InitPay \/ DashInit

NextBusy ==
    \/ tab = 0 /\ \E r \in net, resp \in Responses : StatusChecked(r, resp)
    \/ tab = 0 /\ \E isImage \in BOOLEAN : Pick(isImage)
    \/ tab = 0 /\ ReaderLoad
    \/ tab = 0 /\ Reset
    \/ tab = 0 /\ Scan
    \/ tab = 0 /\ \E r \in net, resp \in Responses : ScanDone(r, resp)
    \/ tab = 0 /\ \E r \in net, resp \in Responses : ReadDone(r, resp)
    \/ tab = 0 /\ Reload
    \/ tab = 1 /\ \E r \in dnet, resp \in DashResponses : DashLoadDone(r, resp)
    \/ tab = 1 /\ \E m \in Meals : SetDeleting(m)
    \/ tab = 1 /\ CancelDelete
    \/ tab = 1 /\ HandleDelete
    \/ tab = 1 /\ \E r \in dnet, resp \in DashResponses, gone \in BOOLEAN :
                      DashDeleteDone(r, resp, gone)
    \/ tab = 1 /\ DashReload

SpecBusy == InitBusy /\ [][NextBusy]_vars

\* ======================================================================
\* api.req: calls, responses, and the credential around them
\* ======================================================================
\* Statuses and details a server may answer with; status 0 is a transport
\* failure.
ReqResponses ==
    [status : {200}, detail : {None}, tok : {"t1"}, active : {TRUE}]
      \cup [status : {Unauthorized, 403, 500}, detail : Falsy \cup {"denied"},
             tok : {None}, active : {FALSE}]
      \cup {NoResp}

\* What no step of this part touches.
reqFrame == <<authed, tab, authLoading, scVars, pwVars, profile, net, widgets, redeliver, subReq,
              subReqHere, advisory, paidHere, last, swVars, dashVars>>

InitReq ==
    /\ token \in {None} \cup Tokens /\ stored = token /\ reloading = FALSE
    /\ authed = (token # None) /\ tab = 0 /\ authLoading = FALSE
    /\ image = FALSE /\ file = FALSE /\ result = FALSE /\ loading = FALSE
    /\ scError = None /\ showPaywall = FALSE /\ subChecked = FALSE /\ reader = 0
    /\ paying = FALSE /\ payError = None
    /\ profile = FALSE /\ net = {} /\ widgets = {}
    /\ revoked = FALSE /\ subReq = FALSE /\ subReqHere = FALSE
    /\ advisory = "pending" /\ paidHere = FALSE /\ last = "none"
    /\ redeliver = NoRedeliver
    /\ SWIdle /\ DashIdle /\ CallsIdle

\* api.req up to the await of fetch: the headers are built from api.token
\* as it is now.  tok is history: the credential at that moment.
ReqCall(i, body) ==
    /\ calls[i].phase # "sent"
    /\ calls' = [calls EXCEPT ![i] =
                    [NoCall EXCEPT !.phase = "sent", !.body = body, !.tok = token,
                                   !.headers = Headers(token, body)]]
    /\ UNCHANGED <<credVars, reqFrame>>

\* api.req after the await of fetch.
ReqSettle(i, resp) ==
    /\ calls[i].phase = "sent"
    /\ LET o == req(resp, Sess) IN
       /\ ApiTail(o)
       /\ calls' = [calls EXCEPT ![i] =
                       [@ EXCEPT !.phase = "done", !.resp = resp, !.out = Outcome(resp, o)]]
    /\ UNCHANGED reqFrame

\* api.setToken(t), api.clear() by the screens, between and during calls.
ReqSetToken(t) ==
    /\ token = None
    /\ token' = setToken(t).token /\ stored' = setToken(t).stored
    /\ revoked' = FALSE
    /\ UNCHANGED <<reloading, calls, reqFrame>>

ReqClear ==
    /\ token # None
    /\ token' = clear.token /\ stored' = clear.stored
    /\ UNCHANGED <<reloading, revoked, calls, reqFrame>>

\* window.location.reload() takes effect.
ReqReload ==
    /\ reloading
    /\ reloading' = FALSE
    /\ token' = stored
    /\ calls' = [i \in 1..MaxCalls |-> NoCall]
    /\ UNCHANGED <<stored, revoked, reqFrame>>

NextReq ==
    \/ \E i \in 1..MaxCalls, body \in BodyKinds : ReqCall(i, body)
    \/ \E i \in 1..MaxCalls, resp \in ReqResponses : ReqSettle(i, resp)
    \/ \E t \in Tokens : ReqSetToken(t)
    \/ ReqClear
    \/ ReqReload

SpecReq == InitReq /\ [][NextReq]_vars

\* ======================================================================
\* Claims about the application (checked under Spec)
\* ======================================================================

\* Any step in which api.req resumes after its fetch with response resp.
ResponseStep(r, resp) ==
    \/ SubmitDone(r, resp)
    \/ StatusChecked(r, resp)
    \/ ScanDone(r, resp)
    \/ \E hasRzp \in BOOLEAN : OrderDone(r, resp, hasRzp)
    \/ VerifyDone(r, resp)
    \/ ReadDone(r, resp)

\* The requests sent by the step.
Sent == net' \ (net \cup Orphaned(net) \cup OrphanedPw(net))

\* C1: once a response had status 401 the credential is cleared in memory
\* and in storage, and no request sent afterwards carries an Authorization
\* header, until a successful /login or /register stores a new credential.
C1_NoStaleCredential ==
    /\ revoked => token = None /\ stored = None
    /\ \A x \in net : x.post401 => x.auth = None

\* A request sent after the 401 is in flight beside one that was sent with
\* the credential before it.
C1_Witness ==
    /\ revoked
    /\ \E x, y \in net : x.post401 /\ ~y.post401 /\ y.auth # None

\* C2: a 401 response, on every path and for every caller, clears the
\* credential and asks for the reload that brings the application back to
\* the unauthenticated state, and the call fails: nothing a decoded success
\* body would cause happens.  The reload then shows the AuthScreen.
C2_UnauthorizedAborts ==
    [][ /\ \A r \in net, resp \in Responses :
             (resp.status = Unauthorized /\ ResponseStep(r, resp)) =>
                 /\ token' = None /\ stored' = None /\ reloading'
                 /\ ~req(resp, Sess).ok
                 /\ authed' = authed /\ result' = result /\ profile' = profile
                 /\ widgets' = widgets
                 /\ (showPaywall /\ ScannerMounted => showPaywall')
                 /\ advisory' \in {advisory, "failed"}
        /\ (Reload /\ revoked) => (~authed' /\ token' = None)
      ]_vars

\* The 401 has been handled and the page is about to reload.
C2_Witness == reloading /\ revoked /\ token = None /\ stored = None /\ authed

C4_AllowedOnlyAfterVerify ==
    [][ /\ (Gate = "Blocked" /\ Gate' = "Allowed") =>
               \E r \in net, resp \in Responses :
                   /\ r.path = VerifyPath /\ r.live /\ RespOk(resp)
                   /\ VerifyDone(r, resp)
        /\ (\E x \in Sent : x.path = VerifyPath) =>
               \E w \in widgets : PaymentHandler(w, FALSE)
        /\ (\E w \in widgets' : w \notin (widgets \cup Orphaned(widgets) \cup OrphanedPw(widgets))) =>
               \E r \in net, resp \in Responses :
                   /\ r.path = CreateOrderPath /\ RespOk(resp)
                   /\ OrderDone(r, resp, TRUE)
      ]_vars

\* The scanner is shown again because verify succeeded.
C4_Witness == last = "paid" /\ Gate = "Allowed" /\ paidHere

\* C5: when /subscription/verify fails, the gate stays as it is (Blocked),
\* the paywall that started the payment shows the verification message, no
\* verify, create-order or widget is started by that step; the failure
\* paths of create-order and of the provider never show that message.
C5_VerifyFailureSurfaced ==
    [][ /\ \A r \in net, resp \in Responses :
             (r.path = VerifyPath /\ ~RespOk(resp) /\ VerifyDone(r, resp)) =>
                 /\ showPaywall' = showPaywall
                 /\ (Gate = "Blocked" => Gate' = "Blocked")
                 /\ (r.pw => payError' = VerifyFailedMsg)
                 /\ (~r.pw => payError' = payError)
                 /\ Sent = {}
                 /\ widgets' = widgets
        /\ \A r \in net, resp \in Responses, hasRzp \in BOOLEAN :
             (OrderDone(r, resp, hasRzp) /\ payError' # payError) =>
                 payError' # VerifyFailedMsg
        /\ \A w \in widgets, d \in Descriptions :
             (PaymentFailed(w, d) /\ payError' # payError) =>
                 payError' # VerifyFailedMsg
      ]_vars

\* The paywall shows the verification message.
C5_Witness == last = "verify_failed" /\ Gate = "Blocked" /\ payError = VerifyFailedMsg

\* C6 as stated: after an analyze call reported subscription_required, no
\* /meals/analyze request is sent before a verify call has succeeded,
\* over leaving and re-entering the scanner screen too.
C6_NoAnalyzeUntilVerified ==
    [][ (\E x \in Sent : x.path = AnalyzePath) => ~subReq ]_vars

\* C6 amended: within one scanner-screen entry, after an analyze call of
\* that entry reported subscription_required, no /meals/analyze request is
\* sent before a verify call has succeeded.
C6_NoAnalyzeUntilVerifiedHere ==
    [][ (\E x \in Sent : x.path = AnalyzePath) => ~subReqHere ]_vars

\* An analyze request is in flight in an entry whose check on mount said
\* active and in which a payment was verified: the paywall in between came
\* from an analyze call.
C6_Witness ==
    /\ paidHere /\ advisory = "active" /\ ~subReqHere
    /\ \E x \in net : x.path = AnalyzePath /\ x.live

\* C7 as stated: whenever the gate is Allowed the client has seen
\* active == true (from the check on mount, or a successful verify).
C7_AllowedOnlyIfActive == Gate = "Allowed" => (advisory = "active" \/ paidHere)

\* C7 amended: the gate is never Allowed while the last word of the check
\* on mount is active == false and no verify has succeeded; it is Allowed
\* on active == true, after a successful verify, or when the check failed.
C7_NeverAllowedOnInactive ==
    Gate = "Allowed" => (advisory \in {"active", "failed"} \/ paidHere)

\* The gate is Allowed after a failed check.
C7_Witness == Gate = "Allowed" /\ advisory = "failed" /\ ~paidHere

\* C8: dismissing the widget leaves the paywall shown with paying reset to
\* false, and changes no error message.
C8_DismissReturnsToBlocked ==
    [][ \A w \in widgets :
          (w.pw /\ Dismiss(w)) =>
              /\ Gate = "Blocked" /\ Gate' = "Blocked"
              /\ ~paying'
              /\ payError' = payError /\ scError' = scError
      ]_vars

\* The widget was dismissed, the pay button is enabled, no error is shown.
C8_Witness == last = "dismissed" /\ Gate = "Blocked" /\ ~paying /\ payError = None

\* ======================================================================
\* Claims about the service worker (checked under SpecSW)
\* ======================================================================

\* C9 as stated: once a successful network response for a cacheable key was
\* returned to the page, a later GET for that key whose network fetch fails
\* is answered from the cache, whenever it is made.
C9_OfflineAfterFetch ==
    (page.url # ApiUrl /\ page.method = "GET" /\ page.netFailed /\ page.prior)
        => page.kind = "cache"

\* C9 amended: once a cache write for a cacheable key has completed, a GET
\* for that key whose network fetch fails is answered from the cache with
\* the body of the last completed write.
C9_OfflineAfterWrite ==
    [][ \A q \in swReqs :
          (CacheMatch(q) /\ q.method = "GET" /\ written[q.url] # None) =>
              (page'.kind = "cache" /\ page'.body = written[q.url])
      ]_vars

\* An offline answer for a key that was fetched before and is not one of
\* the assets stored at install.
C9_Witness ==
    /\ page.kind = "cache" /\ page.netFailed /\ page.prior
    /\ page.url \notin STATIC_ASSETS /\ page.body = written[page.url]

\* C10: a request whose URL contains "/api/" is never answered by the
\* worker: nothing of it is stored or about to be stored, it is never
\* answered from the cache, and its network failure reaches the page.
C10_ApiBypassesCache ==
    /\ \A e \in caches : e.url # ApiUrl
    /\ \A p \in puts : p.url # ApiUrl
    /\ \A q \in swReqs : q.url = ApiUrl => q.phase = "direct"
    /\ page.url = ApiUrl =>
          /\ page.kind # "cache"
          /\ page.netFailed => page.kind = "error"

\* An API request failed on the network and the page saw the failure.
C10_Witness == page.url = ApiUrl /\ page.netFailed /\ page.kind = "error"

\* C11: a non-success status from a reachable server is returned to the page
\* as it is, starts no cache write and leaves the cache as it was; a cache
\* lookup is started by a transport failure only.
C11_StatusIsNoFallback ==
    [][ /\ \A q \in swReqs, body \in Bodies :
              NetResponse(q, FALSE, body) =>
                  /\ page'.kind = "http-error" /\ page'.body = body
                  /\ page'.url = q.url /\ ~page'.netFailed
                  /\ caches' = caches /\ puts' = puts
                  /\ \A x \in swReqs' : x.phase # "match" \/ x \in swReqs
        /\ \A x \in swReqs' \ swReqs :
              x.phase = "match" => \E q \in swReqs : q.id = x.id /\ NetFail(q)
      ]_vars

\* A server error was passed on for a key that has an entry in the cache.
C11_Witness ==
    /\ page.kind = "http-error" /\ page.method = "GET"
    /\ Match(caches, order, page.url, "GET") # None /\ puts = {}

\* C12: when the network fetch of a cacheable request has failed and the
\* cache lookup finds no entry stored for its key, the page gets a failed
\* request, never a response.
C12_MissPropagatesFailure ==
    [][ \A q \in swReqs :
          (CacheMatch(q) /\ ~\E e \in caches : e.url = q.url) =>
              /\ page'.kind = "error" /\ page'.body = None
              /\ page'.url = q.url /\ page'.netFailed
      ]_vars

\* A cacheable GET failed on the network with nothing stored for it, while
\* other keys had entries.
C12_Witness ==
    /\ page.kind = "error" /\ page.netFailed /\ page.method = "GET"
    /\ page.url = <<"app.js">> /\ written[page.url] = None /\ caches # {}

\* C13: activation deletes every cache of another name, and once this
\* version is active no request is answered from a cache of another name,
\* also when a fetch the previous version started completes afterwards.
C13_NoAnswerFromOldVersion ==
    [][ /\ Activate => \A e \in caches' : e.name = CACHE_NAME
        /\ \A q \in swReqs :
              (swState = "activated" /\ CacheMatch(q)) =>
                  page'.from \in {None, CACHE_NAME}
      ]_vars

\* The body stored for url in this version's cache, None when there is none.
Stored(url) ==
    IF \E e \in caches : e.name = CACHE_NAME /\ e.url = url
    THEN (CHOOSE e \in caches : e.name = CACHE_NAME /\ e.url = url).body
    ELSE None

\* C14 as stated: once every cache write has completed, the entry of a key
\* is the body of the successful response that arrived last for it.
C14_EntryIsLastResponse ==
    puts = {} => \A u \in Urls : lastOk[u] # None => Stored(u) = lastOk[u]

\* C14 amended: a completing write replaces the entry of its key by its own
\* body (the last write wins), and the entry of a fetched key is always the
\* body of a write that completed, the last one.
C14_LastWriteWins ==
    [][ \A p \in puts :
          (PutDone(p) /\ p.method = "GET" /\ p.name = CACHE_NAME) =>
              /\ \E e \in caches' : e.name = p.name /\ e.url = p.url /\ e.body = p.body
              /\ \A e \in caches' : (e.name = p.name /\ e.url = p.url) => e.body = p.body
              /\ \A e \in caches' : (e.name # p.name \/ e.url # p.url) => e \in caches
      ]_vars

\* Two fetches of one key overlapped and their writes completed against the
\* order of the responses: the entry is the earlier response's body.
C14_Witness ==
    /\ puts = {} /\ lastOk[<<"app.js">>] # None /\ Stored(<<"app.js">>) # None
    /\ Stored(<<"app.js">>) # lastOk[<<"app.js">>]

\* C15: a request whose method is not GET is never answered from the cache,
\* whatever is stored for its URL, and the write started for its response
\* stores nothing.
C15_MutatingNeverCached ==
    [][ /\ \A p \in puts :
              (PutDone(p) /\ p.method # "GET") => caches' = caches
        /\ \A q \in swReqs :
              (CacheMatch(q) /\ q.method # "GET") =>
                  (page'.kind = "error" /\ page'.from = None)
        /\ page'.method # "GET" => page'.kind # "cache"
      ]_vars

\* A POST to a cacheable URL failed on the network while an entry was stored
\* for that URL, and the page saw the failure.
C15_Witness ==
    /\ page.method = "POST" /\ page.url # ApiUrl /\ page.netFailed
    /\ page.kind = "error" /\ Stored(page.url) # None

\* ======================================================================
\* Claims about the dashboard (checked under SpecDash)
\* ======================================================================

\* C16: the three reads of a load() are joined: a read that fails updates
\* none of today, history and stats and ends the loading state; the three
\* change only together, when the last read of a load none of whose reads
\* failed succeeds, each to what its own read gave; the dashboard never
\* holds some of the three without the others.
C16_AllOrNothing ==
    [][ /\ last' = "read_failed" =>
              /\ UNCHANGED <<today, history, stats>>
              /\ (\E i \in 1..MaxLoads :
                     joins[i].live /\ ~joins[i].settled /\ joins'[i].settled) => ~dLoading'
        /\ (<<today, history, stats>>' # <<today, history, stats>>) =>
              \/ today' = NoData /\ history' = NoData /\ stats' = NoData
              \/ \E r \in dnet :
                    /\ r.kind = "get" /\ ~joins[r.n].settled
                    /\ \A p \in DashboardPaths \ {r.path} : joins[r.n].got[p].loaded
                    /\ LET got == [joins[r.n].got EXCEPT ![r.path] = Snapshot(server)]
                       IN /\ today' = got[TodayPath]
                          /\ history' = got[HistoryPath]
                          /\ stats' = got[StatsPath]
        /\ today'.loaded = history'.loaded /\ history'.loaded = stats'.loaded
      ]_vars

\* The first load failed in one read after another read had succeeded: the
\* dashboard is shown with none of the three set.
C16_Witness ==
    /\ DashMounted /\ ~dLoading
    /\ ~today.loaded /\ ~history.loaded /\ ~stats.loaded
    /\ \E i \in 1..MaxLoads :
          /\ joins[i].live /\ joins[i].settled
          /\ \E p \in DashboardPaths : joins[i].got[p].loaded

\* C17: once a DELETE of a meal was answered with success, the dashboard
\* that is shown never contains that meal, also when a refetch fails.
C17_DeletedNeverShown ==
    (DashMounted /\ ~dLoading) =>
        \A m \in deletedOk : m \notin (today.meals \cup history.meals \cup stats.meals)

\* ======================================================================
\* Claims about api.req (checked under SpecReq)
\* ======================================================================
\* The calls that were answered with a non-success status other than 401.
Refused ==
    {i \in 1..MaxCalls : calls[i].phase = "done" /\ calls[i].resp.status \notin {0, Unauthorized}
                          /\ ~RespOk(calls[i].resp)}

\* C18 as stated: the error of a refused call carries the status: what two
\* callers catch differs when the statuses differ.
C18_ErrorCarriesStatus ==
    \A i, j \in Refused :
        calls[i].resp.status # calls[j].resp.status => calls[i].out # calls[j].out

\* C18 amended: a refused call throws an Error whose message is the body's
\* detail when there is a non-empty one and "Failed" otherwise, and which
\* carries nothing else; a call answered with success returns the body.
C18_ErrorCarriesDetail ==
    \A i \in 1..MaxCalls :
        /\ i \in Refused =>
              /\ calls[i].out.kind = "throw" /\ calls[i].out.body = NoBody
              /\ calls[i].resp.detail \in {"denied"} =>
                    calls[i].out.message = calls[i].resp.detail
              /\ calls[i].resp.detail \in {None, ""} =>
                    calls[i].out.message = "Failed"
        /\ (calls[i].phase = "done" /\ calls[i].resp.status = 200) =>
              /\ calls[i].out.kind = "return" /\ calls[i].out.message = None
              /\ calls[i].out.body.token = calls[i].resp.tok
              /\ calls[i].out.body.active = calls[i].resp.active

\* Two callers were refused with different statuses, one body with a detail
\* and one with an empty detail.
C18_Witness ==
    /\ Refused = 1..MaxCalls
    /\ calls[1].resp.status = 403 /\ calls[1].resp.detail = "denied"
    /\ calls[2].resp.status = 500 /\ calls[2].resp.detail = ""

\* C19: every call carries the Authorization header exactly when a
\* credential was present when it was sent, with the value the credential
\* had then, and the JSON content type exactly when its body is not
\* FormData, a call with no body included.
C19_HeadersFollowCall ==
    \A i \in 1..MaxCalls :
        calls[i].phase # "idle" =>
            /\ (calls[i].headers.auth # None) <=> (calls[i].tok # None)
            /\ calls[i].tok # None => calls[i].headers.auth = calls[i].tok
            /\ (calls[i].headers.ctype = JsonType) <=> (calls[i].body # "form")
            /\ calls[i].body = "form" => calls[i].headers.ctype = None

\* An upload sent with a credential that has been replaced since, beside a
\* call with no body sent without a credential.
C19_Witness ==
    /\ calls[1].phase = "sent" /\ calls[1].body = "form"
    /\ calls[1].headers.auth = "t1" /\ token = "t2"
    /\ calls[2].phase = "sent" /\ calls[2].body = "none"
    /\ calls[2].headers.auth = None /\ calls[2].headers.ctype = JsonType

\* ======================================================================
\* Claims about the credential's lifecycle (checked under Spec)
\* ======================================================================

\* C20: the credential, in memory and in storage, becomes present only by
\* a successful /login or /register, becomes absent only by the sign-out
\* or by a 401 response, and is never changed otherwise: no other step and
\* no failed request touches it.
C20_CredentialLifecycle ==
    [][ /\ ((token = None /\ token' # None) \/ (stored = None /\ stored' # None)) =>
              \E r \in net, resp \in Responses :
                  /\ r.path \in {LoginPath, RegisterPath} /\ resp.status = 200
                  /\ SubmitDone(r, resp)
                  /\ token' = resp.tok /\ stored' = resp.tok
        /\ ((token # None /\ token' = None) \/ (stored # None /\ stored' = None)) =>
              \/ Logout
              \/ \E r \in net, resp \in Responses :
                    resp.status = Unauthorized /\ ResponseStep(r, resp)
        /\ (token # None /\ token' # None) => token' = token
        /\ (stored # None /\ stored' # None) => stored' = stored
      ]_vars

\* A credential obtained by a login is still held after a request of the
\* scanner was refused with a status that is not 401.
C20_Witness ==
    /\ token = "t2" /\ stored = "t2" /\ authed /\ scError = "denied" /\ ~revoked

\* ======================================================================
\* Claims about retries and the payment flow (checked under Spec)
\* ======================================================================

\* C21: no failed request is retried: the step that handles a failed
\* response (401, subscription_required, a failed verification, a transport
\* failure, any other non-success status) sends nothing to the endpoint
\* that failed, and sends nothing at all except the status read of the
\* paywall that a subscription_required verdict brings up; the reload
\* after a 401 sends nothing; a /meals/analyze request is only ever sent
\* by the Analyze button, a successful verify included.
C21_NoAutomaticRetry ==
    [][ /\ Sent # {} =>
             \A r \in net \ net', resp \in Responses :
                 (~RespOk(resp) /\ ResponseStep(r, resp)) =>
                     /\ r.path = AnalyzePath /\ resp.detail = SubscriptionRequired
                     /\ \A x \in Sent : /\ x.path # r.path
                                         /\ x.path = StatusPath /\ x.by = "paywall"
        /\ (Reload /\ revoked) => net' = {}
        /\ (\E x \in Sent : x.path = AnalyzePath) => Scan
      ]_vars

\* An analyze call failed for a transport failure: the error is shown, the
\* scanner is idle and no analyze request is in flight.
C21_Witness ==
    /\ Gate = "Allowed" /\ scError = FetchFailedMsg /\ ~loading /\ file
    /\ \A x \in net : x.path # AnalyzePath

\* C22: a payment confirmation handed to the verification step twice, the
\* server accepting both: each accepted verify call leaves the gate of the
\* scanner entry it belongs to Allowed, creates no order, opens no widget,
\* sends nothing and raises no error; the second acceptance, arriving at a
\* gate that is Allowed, changes nothing of the screen or the session.
C22_VerifyTwiceIsOnce ==
    [][ \A r \in net \ net', resp \in Responses :
          ( /\ r.path = VerifyPath /\ r.dup > 0 /\ RespOk(resp)
            /\ VerifyDone(r, resp) ) =>
              /\ r.live => Gate' = "Allowed"
              /\ ~r.live => Gate' = Gate
              /\ Sent = {}
              /\ widgets' \subseteq (widgets \cup OrphanedPw(widgets))
              /\ scError' = scError /\ payError' \in {payError, None}
              /\ (redeliver.oks = 1 /\ Gate = "Allowed") =>
                    UNCHANGED <<scVars, pwVars, token, stored, authed, tab, widgets>>
      ]_vars

\* Both verify calls of one confirmation have returned successfully to the
\* scanner entry that paid; the gate is Allowed and no error is shown.
C22_Witness ==
    /\ last = "paid_again" /\ redeliver.oks = 2
    /\ Gate = "Allowed" /\ scError = None /\ payError = None

\* C23: in a scanner entry blocked by a subscription_required answer to an
\* analyze call, the step in which /subscription/verify returns
\* successfully makes the gate Allowed and sends the analyze call again.
C23_RetriedAfterPayment ==
    [][ (last' = "paid" /\ Gate = "Blocked" /\ subReqHere /\ file) =>
            /\ Gate' = "Allowed"
            /\ \E x \in Sent : x.path = AnalyzePath
      ]_vars

\* ======================================================================
\* Claims about the gate of one scanner entry (checked under Spec)
\* ======================================================================

\* The status reads of the scanner's effect on mount that its instance is
\* still waiting for.
GateQueries(S) == {x \in S : x.path = StatusPath /\ x.by = "scanner" /\ x.live}

\* C24: every entry to the scanner screen sends the gate's status query
\* once and no other step sends one; while it is pending the gate is
\* Checking and the scanner is not shown; when it returns active false the
\* gate becomes Blocked and the paywall is shown in place of the scanner.
C24_CheckedOncePerEntry ==
    [][ /\ (ScannerMounted' /\ (~ScannerMounted \/ Reload)) =>
              /\ Cardinality(GateQueries(net')) = 1
              /\ Gate' = "Checking"
        /\ GateQueries(Sent) # {} => (ScannerMounted' /\ (~ScannerMounted \/ Reload))
        /\ Cardinality(GateQueries(net')) <= 1
        /\ (GateQueries(net') # {}) <=> (Gate' = "Checking")
        /\ Gate' = "Checking" => ~ScannerShown' /\ ~PaywallMounted'
        /\ \A r \in GateQueries(net \ net'), resp \in Responses :
              (RespOk(resp) /\ ~resp.active /\ StatusChecked(r, resp)) =>
                  /\ Gate' = "Blocked" /\ PaywallMounted' /\ ~ScannerShown'
      ]_vars

\* The query of this entry said active false: the paywall is shown, and
\* no analyze call of this entry had any part in it.
C24_Witness ==
    /\ Gate = "Blocked" /\ PaywallMounted /\ advisory = "inactive" /\ ~subReqHere
    /\ GateQueries(net) = {}

\* C25: when the analyze call of the mounted scanner fails with anything
\* but subscription_required, the gate stays Allowed and no paywall is
\* shown, the result is left as it was, the busy flag is reset, and the
\* error shown is the body's detail as it came (the generic message when
\* the body has none, the transport's message when fetch failed).
C25_OtherErrorsKeepGate ==
    [][ \A r \in net \ net', resp \in Responses :
          ( /\ r.path = AnalyzePath /\ r.live
            /\ ~RespOk(resp) /\ resp.detail # SubscriptionRequired
            /\ ScanDone(r, resp) ) =>
              /\ Gate = "Allowed" /\ Gate' = "Allowed"
              /\ showPaywall' = showPaywall /\ ~PaywallMounted'
              /\ result' = result /\ ~loading'
              /\ (resp.status # 0 /\ resp.detail # None) => scError' = resp.detail
              /\ (resp.status # 0 /\ resp.detail = None) => scError' = GenericMsg
              /\ resp.status = 0 => scError' = FetchFailedMsg
      ]_vars

\* A refused analyze call: its detail is shown on the scanner, which stays
\* open with the photo in place.
C25_Witness ==
    /\ Gate = "Allowed" /\ scError = "denied" /\ ~showPaywall
    /\ image /\ file /\ ~result /\ ~loading /\ ~subReqHere

\* C27: when the status query of a scanner entry fails (a refusal, a 401,
\* a transport failure) the gate fails open: subChecked becomes true,
\* showPaywall stays false, the scanner is shown and nothing is sent; a
\* later subscription_required answer to an analyze call of that entry
\* still blocks.
C27_FailedCheckFailsOpen ==
    [][ /\ \A r \in GateQueries(net \ net'), resp \in Responses :
              (~RespOk(resp) /\ StatusChecked(r, resp)) =>
                  /\ Gate = "Checking" /\ Gate' = "Allowed"
                  /\ subChecked' /\ ~showPaywall' /\ ScannerShown'
                  /\ Sent = {}
        /\ (last' = "sub_required" /\ advisory = "failed") => Gate' = "Blocked"
      ]_vars

\* The status query failed and the user has gone on to analyze a photo.
C27_Witness ==
    /\ Gate = "Allowed" /\ advisory = "failed" /\ ~paidHere /\ loading
    /\ \E x \in net : x.path = AnalyzePath /\ x.live

\* C28: entering the scanner screen (from another tab, by a login, by a
\* reload) starts from nothing: the gate is Checking, no photo, no result,
\* no error, no paywall; the gate the entry then gets is decided by the
\* answer to its own status query alone, whatever an analyze call of an
\* earlier entry had said; what an earlier entry still had in flight
\* changes nothing of the new one when it returns.
C28_GateNotCarriedOver ==
    [][ /\ (ScannerMounted' /\ (~ScannerMounted \/ Reload \/ tab' # tab)) =>
              /\ Gate' = "Checking"
              /\ ~image' /\ ~file' /\ ~result' /\ ~loading' /\ scError' = None
              /\ ~showPaywall' /\ ~subChecked' /\ ~paying' /\ payError' = None
        /\ \A r \in GateQueries(net \ net'), resp \in Responses :
              StatusChecked(r, resp) =>
                  Gate' = IF RespOk(resp) /\ ~resp.active THEN "Blocked" ELSE "Allowed"
        /\ ( /\ \E r \in net \ net' : ~r.live /\ r.by \in {"scanner", "paywall"}
             /\ ~(reloading /\ ~reloading') ) =>
                  UNCHANGED <<scVars, pwVars>>
      ]_vars

\* An entry before this one was told subscription_required and nobody has
\* paid; this entry's own query said active, and its gate is Allowed with
\* no photo and no result.
C28_Witness ==
    /\ Gate = "Allowed" /\ subReq /\ ~subReqHere /\ advisory = "active" /\ ~paidHere
    /\ ~image /\ ~file /\ ~result /\ scError = None

\* The step resets paying through one of the three events the claim names,
\* or through handlePayment's catch.
OrderFailedStep(withWidgetFailure) ==
    \E r \in net \ net', resp \in Responses, hasRzp \in BOOLEAN :
        /\ r.path = CreateOrderPath /\ r.pw
        /\ IF withWidgetFailure THEN ~(RespOk(resp) /\ hasRzp) ELSE ~RespOk(resp)
        /\ OrderDone(r, resp, hasRzp)
ProviderStep ==
    \/ \E w \in widgets, d \in Descriptions : w.pw /\ PaymentFailed(w, d)
    \/ \E w \in widgets : w.pw /\ Dismiss(w)

\* C29 as stated: within one paywall instance paying goes back to false
\* only when order creation fails, the provider reports a failed payment
\* or the widget is dismissed, and it is true after a verification
\* failure.
C29_PayingResetByThreeOnly ==
    [][ /\ (PaywallMounted /\ PaywallMounted' /\ paying /\ ~paying') =>
              (OrderFailedStep(FALSE) \/ ProviderStep)
        /\ last' = "verify_failed" => paying'
      ]_vars

\* C29 amended: paying is set by handlePayment and by nothing else; within
\* one paywall instance it goes back to false only through handlePayment's
\* catch (order creation failed, or the widget could not be opened), a
\* failed payment reported by the provider, or the widget's dismissal; a
\* verification failure leaves it as it is; while it is true no checkout is
\* started from that paywall.
C29_PayingResetByCatchOrProvider ==
    [][ /\ HandlePayment => (~paying /\ paying')
        /\ (~paying /\ paying') => HandlePayment
        /\ (PaywallMounted /\ PaywallMounted' /\ paying /\ ~paying') =>
              (OrderFailedStep(TRUE) \/ ProviderStep)
        /\ last' = "verify_failed" => (paying' = paying /\ PaywallMounted')
        /\ (PaywallMounted /\ paying) => \A x \in Sent : x.path # CreateOrderPath
      ]_vars

\* Verification has failed: the paywall shows the message, its pay button
\* is disabled and nothing is pending that could enable it again.
C29_Witness ==
    /\ last = "verify_failed" /\ PaywallMounted /\ paying
    /\ payError = VerifyFailedMsg
    /\ widgets = {} /\ \A x \in net : x.path \notin {CreateOrderPath, VerifyPath}

\* ======================================================================
\* Claims about the stored credential (checked under SpecReq)
\* ======================================================================

\* C26: at start-up and after every setToken, clear and reload the
\* credential in memory and the one stored under ns_token agree: the same
\* token, or both absent; each is always one whole token or absent, and
\* what a call read when it built its headers is the whole credential of
\* that moment.
C26_CredentialAgrees ==
    /\ token = stored
    /\ token \in {None} \cup Tokens
    /\ \A i \in 1..MaxCalls :
          calls[i].phase # "idle" =>
              /\ calls[i].tok \in {None} \cup Tokens
              /\ calls[i].headers.auth = calls[i].tok

\* A 401 cleared the credential "t1" and a login has stored "t2" since.
C26_Witness ==
    /\ token = "t2" /\ stored = "t2"
    /\ calls[1].phase = "done" /\ calls[1].tok = "t1"
    /\ calls[1].resp.status = Unauthorized

\* ======================================================================
\* Claims about the busy flags (checked under SpecBusy)
\* ======================================================================

\* What each spinner waits for.
AnalyzePending(S) == {x \in S : x.path = AnalyzePath /\ x.live}
DeletePending(S) == {x \in S : x.kind = "delete" /\ x.live}
LoadPending(J) == {i \in 1..MaxLoads : J[i].live /\ ~J[i].settled}

====
